---- MODULE Spec2Model ----
(***************************************************************************)
(* A model of the diagram router (scripts/diagram_router.py) and of the    *)
(* diagram generator (scripts/generate_diagram.py).                        *)
(*                                                                         *)
(* Texts and labels are TLA+ strings and are processed character by        *)
(* character, as the Python code does (lower, replace, strip, substring    *)
(* tests, regular expressions).  Scores are IEEE-754 doubles, computed     *)
(* with the additions the code performs in the order it performs them.     *)
(***************************************************************************)
EXTENDS Integers, Sequences, FiniteSets, TLC

(***************************************************************************)
(* IEEE-754 binary64 arithmetic on the values the router handles.          *)
(*                                                                         *)
(* A double d that is 0 or lies in [0.125, 8) is an integer multiple of    *)
(* 2^-55; it is written as the triple <<a, b, c>> with                     *)
(*     d = (a * 2^40 + b * 2^20 + c) * 2^-55,   0 <= b, c < 2^20.          *)
(* Every value of the router is of that kind: its float literals are 0.15, *)
(* 0.2, 0.25, 0.3, 0.4, 0.5 and 1.0 and its sums stay below 8.             *)
(***************************************************************************)
Limb == 1048576

FZero == <<0, 0, 0>>

\* x < y on doubles
FLess(x, y) ==
    \/ x[1] < y[1]
    \/ x[1] = y[1] /\ x[2] < y[2]
    \/ x[1] = y[1] /\ x[2] = y[2] /\ x[3] < y[3]

\* the carries of a triple whose limbs may exceed 2^20
Carry(t) ==
    LET b == t[2] + (t[3] \div Limb)
        a == t[1] + (b \div Limb)
    IN  <<a, b % Limb, t[3] % Limb>>

\* the distance between neighbouring doubles at x, in units of 2^-55
Ulp(x) ==
    IF x[1] < 8192 THEN 1
    ELSE IF x[1] < 16384 THEN 2
    ELSE IF x[1] < 32768 THEN 4
    ELSE IF x[1] < 65536 THEN 8
    ELSE IF x[1] < 131072 THEN 16
    ELSE 32

\* round-to-nearest, ties-to-even, of the exact value x + rem/100 units
\* (x a triple, 0 <= rem < 100) to the 53-bit significand of a double
RoundNearestEven(x, rem) ==
    LET u    == Ulp(x)
        r    == x[3] % u
        low  == <<x[1], x[2], x[3] - r>>
        high == Carry(<<x[1], x[2], x[3] - r + u>>)
        twice == 2 * (100 * r + rem)
        odd  == ((x[3] - r) \div u) % 2 = 1
    IN  IF twice < 100 * u THEN low
        ELSE IF twice > 100 * u THEN high
        ELSE IF odd THEN high ELSE low

\* the double a decimal literal with two decimals denotes: FromDec(15) is
\* the Python float 0.15 (n = 0 or n >= 13, so that the value is 0 or at
\* least 0.125)
FromDec(n) ==
    LET a0 == n * 32768
        b0 == (a0 % 100) * Limb
        c0 == (b0 % 100) * Limb
    IN  RoundNearestEven(<<a0 \div 100, b0 \div 100, c0 \div 100>>, c0 % 100)

\* x + y on doubles (one correctly rounded IEEE addition)
FAdd(x, y) ==
    RoundNearestEven(Carry(<<x[1] + y[1], x[2] + y[2], x[3] + y[3]>>), 0)

\* max in place of min
FMinAsMax(x, y) == IF FLess(x, y) THEN y ELSE x

\* Python min(x, y)
FMin(x, y) == IF FLess(y, x) THEN y ELSE x

\* the number of hundredths nearest to the double x (ties to the even
\* number of hundredths), which is the decimal value of round(x, 2)
Hundredths(x) ==
    LET t == Carry(<<200 * x[1], 200 * x[2], 200 * x[3]>>)
        m == t[1] \div 32768
        exact == (t[1] % 32768 = 0) /\ t[2] = 0 /\ t[3] = 0
        k == m \div 2
    IN  IF m % 2 = 0 THEN k
        ELSE IF exact /\ k % 2 = 0 THEN k
        ELSE k + 1

\* Python round(x, 2): the double nearest to the nearest number of hundredths
Round2(x) == FromDec(Hundredths(x))

\* Python sum(w for ... ) over n hits: starts from the int 0 and adds w
\* n times, left to right (the partial sum is bound as a value before the
\* next addition)
RECURSIVE FSum(_, _)
FSum(n, w) ==
    IF n = 0 THEN FZero
    ELSE CHOOSE r \in {FAdd(acc, w) : acc \in {FSum(n - 1, w)}} : TRUE


(***************************************************************************)
(* Python strings.  A str is a TLA+ string; Chars turns it into the        *)
(* sequence of its characters (strings of length 1) so that it can be      *)
(* indexed.  The characters of the model are ASCII.                        *)
(***************************************************************************)
Chars(s) == [i \in 1..Len(s) |-> SubSeq(s, i, i)]

UpperLetters == Chars("ABCDEFGHIJKLMNOPQRSTUVWXYZ")
LowerLetters == Chars("abcdefghijklmnopqrstuvwxyz")
DigitChars == {"0", "1", "2", "3", "4", "5", "6", "7", "8", "9"}
SpaceChars == {" ", "\t", "\n", "\r"}
UpperSet == {UpperLetters[i] : i \in 1..26}
LowerSet == {LowerLetters[i] : i \in 1..26}
\* the characters \w matches
WordChars == UpperSet \cup LowerSet \cup DigitChars \cup {"_"}

LowerMap == [c \in UpperSet |-> LowerLetters[CHOOSE i \in 1..26 : UpperLetters[i] = c]]
UpperMap == [c \in LowerSet |-> UpperLetters[CHOOSE i \in 1..26 : LowerLetters[i] = c]]
LowerChar(c) == IF c \in UpperSet THEN LowerMap[c] ELSE c
UpperChar(c) == IF c \in LowerSet THEN UpperMap[c] ELSE c

\* str.lower(), on character sequences
LowerChars(cs) == [i \in 1..Len(cs) |-> LowerChar(cs[i])]

\* the str made of the characters cs
RECURSIVE Str(_)
Str(cs) == IF Len(cs) = 0 THEN "" ELSE cs[1] \o Str(Tail(cs))

\* Python "k in text" on character sequences
Contains(text, k) ==
    \E i \in 0..(Len(text) - Len(k)) : SubSeq(text, i + 1, i + Len(k)) = k

Max(S) == CHOOSE m \in S : \A n \in S : n <= m
Min(S) == CHOOSE m \in S : \A n \in S : m <= n

(***************************************************************************)
(* Python regular expressions (module re), as far as the router uses       *)
(* them.  A pattern is a sequence of items:                                *)
(*   Lit(s)          the characters of s                                   *)
(*   Cls(c, lo, hi)  lo to hi characters of the class c, greedy            *)
(*   WordB           \b                                                    *)
(*   Alt(<<p1, ..>>) (p1|p2|...), each pi a pattern                        *)
(* A class is [neg |-> BOOLEAN, set |-> characters].  A position is the    *)
(* number of characters before it.  The matcher backtracks as re does: the *)
(* ends of an item are tried in the order of its preferences.              *)
(***************************************************************************)
Unbounded == 1000

Lit(s) == [t |-> "lit", s |-> Chars(s)]
Cls(c, lo, hi) == [t |-> "cls", c |-> c, lo |-> lo, hi |-> hi]
WordB == [t |-> "b"]
Alt(ps) == [t |-> "alt", a |-> ps]
\* (w1|w2|...) over plain words
Words(ws) == Alt([i \in 1..Len(ws) |-> <<Lit(ws[i])>>])

ClsW == [neg |-> FALSE, set |-> WordChars]
ClsD == [neg |-> FALSE, set |-> DigitChars]
ClsS == [neg |-> FALSE, set |-> SpaceChars]
ClsDot == [neg |-> TRUE, set |-> {"\n"}]
ClsOf(set) == [neg |-> FALSE, set |-> set]
ClsNot(set) == [neg |-> TRUE, set |-> set]
\* x? for one character x
Opt(ch) == Cls(ClsOf({ch}), 0, 1)

InClass(ch, c) == (ch \in c.set) # c.neg

AtWordBoundary(s, p) ==
    (p > 0 /\ s[p] \in WordChars) # (p < Len(s) /\ s[p + 1] \in WordChars)

\* the longest run of at most hi characters of class c after position p
Run(s, c, hi, p) ==
    Max({r \in 0..Min({hi, Len(s) - p}) : \A j \in 1..r : InClass(s[p + j], c)})

RECURSIVE ItemEnds(_, _, _), AllEnds(_, _, _, _), FlatEnds(_, _, _, _, _), AltEnds(_, _, _, _)

\* the positions at which a match of the item starting at p can end, in the
\* order in which the backtracking matcher tries them
ItemEnds(s, item, p) ==
    CASE item.t = "lit" ->
            IF p + Len(item.s) <= Len(s) /\ SubSeq(s, p + 1, p + Len(item.s)) = item.s
            THEN <<p + Len(item.s)>> ELSE <<>>
      [] item.t = "cls" ->
            LET r == Run(s, item.c, item.hi, p)
            IN  IF r < item.lo THEN <<>>
                ELSE [i \in 1..(r - item.lo + 1) |-> p + r - i + 1]
      [] item.t = "b" -> IF AtWordBoundary(s, p) THEN <<p>> ELSE <<>>
      [] item.t = "alt" -> AltEnds(s, item.a, 1, p)

\* the ends of the alternatives j, j+1, ... of an alternation, in order
AltEnds(s, alts, j, p) ==
    IF j > Len(alts) THEN <<>>
    ELSE AllEnds(s, alts[j], 1, p) \o AltEnds(s, alts, j + 1, p)

\* the ends of the items k, k+1, ... of the pattern re matched from p
AllEnds(s, re, k, p) ==
    IF k > Len(re) THEN <<p>>
    ELSE FlatEnds(s, re, k, ItemEnds(s, re[k], p), 1)

FlatEnds(s, re, k, ends, i) ==
    IF i > Len(ends) THEN <<>>
    ELSE AllEnds(s, re, k + 1, ends[i]) \o FlatEnds(s, re, k, ends, i + 1)

\* the items k, k+1, ... of the pattern re match at position p
RECURSIVE MatchesAt(_, _, _, _)
MatchesAt(s, re, k, p) ==
    \/ k > Len(re)
    \/ LET ends == ItemEnds(s, re[k], p)
       IN  \E i \in 1..Len(ends) : MatchesAt(s, re, k + 1, ends[i])

\* the end of the match the backtracking matcher finds at position p
\* (MatchesAt holds there)
RECURSIVE MatchEnd(_, _, _, _)
MatchEnd(s, re, k, p) ==
    IF k > Len(re) THEN p
    ELSE LET ends == ItemEnds(s, re[k], p)
             i == Min({j \in 1..Len(ends) : MatchesAt(s, re, k + 1, ends[j])})
         IN  MatchEnd(s, re, k + 1, ends[i])

\* re.search(re, s) is not None
Search(re, s) == \E p \in 0..Len(s) : MatchesAt(s, re, 1, p)

\* len(re.findall(re, s)): the matches found left to right, each search
\* resuming where the previous match ended (no pattern of the router matches
\* the empty string)
RECURSIVE CountFrom(_, _, _)
CountFrom(re, s, from) ==
    LET starts == {p \in from..Len(s) : MatchesAt(s, re, 1, p)}
    IN  IF starts = {} THEN 0
        ELSE CHOOSE n \in {1 + CountFrom(re, s, e) :
                             e \in {MatchEnd(s, re, 1, Min(starts))}} : TRUE

FindallCount(re, s) == CountFrom(re, s, 0)


(***************************************************************************)
(* diagram_router.py: the six scoring functions.  Each takes the lowered   *)
(* text as a character sequence and returns a double.                      *)
(***************************************************************************)
CharsOfAll(ws) == [i \in 1..Len(ws) |-> Chars(ws[i])]

\* sum(1 for k in keywords if k in text)
KeywordHits(keywords, text) ==
    Cardinality({i \in 1..Len(keywords) : Contains(text, keywords[i])})

\* sum(1 for p in patterns if re.search(p, text))
PatternHits(patterns, text) ==
    Cardinality({i \in 1..Len(patterns) : Search(patterns[i], text)})

\* BaseScore if the pattern hits were weighted like the keyword hits
BaseScoreOneWeight(keywords, wk, patterns, wp, text) ==
    FAdd(FSum(KeywordHits(keywords, text), wk), FSum(PatternHits(patterns, text), wk))

\* score = sum(wk for keyword hits); score += sum(wp for pattern hits)
BaseScore(keywords, wk, patterns, wp, text) ==
    FAdd(FSum(KeywordHits(keywords, text), wk), FSum(PatternHits(patterns, text), wp))

FlowchartKeywords ==
    CharsOfAll(<<"if ", "then", "else", "step", "process", "decision", "start", "end",
                 "flow", "when", "next", "begin", "check", "validate", "verify",
                 "approve", "reject", "submit", "retry", "loop", "repeat">>)

FlowchartPatterns == <<
    <<WordB, Lit("if"), WordB, Cls(ClsDot, 0, Unbounded), WordB, Lit("then"), WordB>>,
    <<WordB, Lit("if"), Cls(ClsS, 1, Unbounded), Words(<<"yes", "no", "valid", "invalid">>), WordB>>,
    <<Lit("step"), Cls(ClsS, 0, Unbounded), Cls(ClsD, 1, 1)>>,
    <<Cls(ClsD, 1, 1), Lit("."), Cls(ClsS, 1, Unbounded), Cls(ClsW, 1, Unbounded)>>,
    <<Words(<<"first", "second", "third", "finally", "lastly">>)>>,
    <<Words(<<"yes", "no">>), Cls(ClsS, 0, Unbounded), Cls(ClsOf({",", ":"}), 1, 1)>>,
    <<Lit("if"), Cls(ClsS, 1, Unbounded),
      Words(<<"yes", "no", "true", "false", "valid", "invalid">>)>> >>

\* r'if\s+\w+.*,\s*(do|show|go|redirect|return)'
FlowchartStrongPattern ==
    <<Lit("if"), Cls(ClsS, 1, Unbounded), Cls(ClsW, 1, Unbounded), Cls(ClsDot, 0, Unbounded),
      Lit(","), Cls(ClsS, 0, Unbounded), Words(<<"do", "show", "go", "redirect", "return">>)>>

\* the local score of _score_flowchart before its return statement
raw_flowchart(text) ==
    LET score == BaseScore(FlowchartKeywords, FromDec(15), FlowchartPatterns, FromDec(25), text)
        bonus == IF Search(FlowchartStrongPattern, text) THEN FAdd(score, FromDec(40)) ELSE score
    IN  bonus

\* return min(score, 1.0)
_score_flowchart(text) == FMin(raw_flowchart(text), FromDec(100))

ArchitectureKeywords ==
    CharsOfAll(<<"service", "database", "api", "frontend", "backend", "server",
                 "client", "layer", "component", "system", "microservice", "gateway",
                 "queue", "cache", "load balancer", "proxy", "container", "cluster",
                 "rest", "grpc", "graphql", "webhook", "endpoint">>)

ArchitecturePatterns == <<
    <<Alt(<< <<Lit("front"), Cls(ClsDot, 0, 1), Lit("end")>>,
             <<Lit("back"), Cls(ClsDot, 0, 1), Lit("end")>> >>)>>,
    <<Alt(<< <<Lit("micro"), Cls(ClsDot, 0, 1), Lit("service")>>,
             <<Lit("web"), Cls(ClsDot, 0, 1), Lit("server")>> >>)>>,
    <<Words(<<"api", "db", "cdn", "dns", "ssl", "http", "tcp">>), WordB>>,
    <<Alt(<< <<Lit("connect"), Opt("s"), Cls(ClsS, 1, Unbounded), Lit("to")>>,
             <<Lit("communicate"), Opt("s"), Cls(ClsS, 1, Unbounded), Lit("with")>>,
             <<Lit("talk"), Opt("s"), Cls(ClsS, 1, Unbounded), Lit("to")>> >>)>>,
    <<Words(<<"layer", "tier">>), Cls(ClsS, 0, Unbounded), Cls(ClsD, 1, 1)>> >>

\* the local score of _score_architecture before its return statement
raw_architecture(text) ==
    BaseScore(ArchitectureKeywords, FromDec(15), ArchitecturePatterns, FromDec(25), text)

\* return min(score, 1.0)
_score_architecture(text) == FMin(raw_architecture(text), FromDec(100))

SequenceKeywords ==
    CharsOfAll(<<"sends", "receives", "request", "response", "calls", "returns",
                 "message", "actor", "reply", "acknowledge", "notify", "publish",
                 "subscribe", "emit", "trigger", "callback", "webhook">>)

SequencePatterns == <<
    <<Cls(ClsW, 1, Unbounded), Cls(ClsS, 1, Unbounded), Lit("send"), Opt("s"),
      Cls(ClsS, 1, Unbounded), Cls(ClsW, 1, Unbounded), Cls(ClsS, 1, Unbounded), Lit("to"),
      Cls(ClsS, 1, Unbounded), Cls(ClsW, 1, Unbounded)>>,
    <<Cls(ClsW, 1, Unbounded), Cls(ClsS, 1, Unbounded),
      Alt(<< <<Lit("call"), Opt("s")>>, <<Lit("request"), Opt("s")>> >>),
      Cls(ClsS, 1, Unbounded), Cls(ClsW, 1, Unbounded)>>,
    <<Cls(ClsW, 1, Unbounded), Cls(ClsS, 1, Unbounded), Lit("return"), Opt("s"),
      Cls(ClsS, 1, Unbounded), Cls(ClsW, 1, Unbounded)>>,
    <<Cls(ClsW, 1, Unbounded), Cls(ClsS, 1, Unbounded), Lit("respond"), Opt("s"),
      Cls(ClsS, 1, Unbounded), Words(<<"with", "to">>), Cls(ClsS, 1, Unbounded)>>,
    <<Words(<<"request", "response">>), Cls(ClsS, 1, Unbounded), Words(<<"from", "to">>),
      Cls(ClsS, 1, Unbounded)>> >>

\* r'\b\w+\s+to\s+\w+\b'
SequenceToPattern ==
    <<WordB, Cls(ClsW, 1, Unbounded), Cls(ClsS, 1, Unbounded), Lit("to"),
      Cls(ClsS, 1, Unbounded), Cls(ClsW, 1, Unbounded), WordB>>

\* the local score of _score_sequence before its return statement
raw_sequence(text) ==
    LET score == BaseScore(SequenceKeywords, FromDec(15), SequencePatterns, FromDec(30), text)
        to_patterns == FindallCount(SequenceToPattern, text)
        bonus == IF to_patterns >= 3 THEN FAdd(score, FromDec(30)) ELSE score
    IN  bonus

\* return min(score, 1.0)
_score_sequence(text) == FMin(raw_sequence(text), FromDec(100))

MindmapKeywords ==
    CharsOfAll(<<"aspects of", "categories", "branches", "related to", "subtopics",
                 "brainstorm", "ideas", "concepts", "topics", "main topic",
                 "central", "branching", "hierarchy", "breakdown", "subdivisions",
                 "mind map", "mindmap", "overview of", "types of", "kinds of",
                 "areas of", "components of", "parts of", "elements of">>)

\* r'\w+\s*\([^)]+,\s*[^)]+\)'
MindmapGroupPattern ==
    <<Cls(ClsW, 1, Unbounded), Cls(ClsS, 0, Unbounded), Lit("("),
      Cls(ClsNot({")"}), 1, Unbounded), Lit(","), Cls(ClsS, 0, Unbounded),
      Cls(ClsNot({")"}), 1, Unbounded), Lit(")")>>

MindmapPatterns == <<
    <<Lit("aspect"), Opt("s"), Cls(ClsS, 1, Unbounded), Lit("of"), Cls(ClsS, 1, Unbounded)>>,
    <<Lit("main"), Cls(ClsS, 1, Unbounded), Words(<<"topic", "concept", "idea">>)>>,
    <<Lit("central"), Cls(ClsS, 1, Unbounded), Words(<<"concept", "idea", "theme">>)>>,
    <<Lit("branche"), Opt("s"), Cls(ClsS, 1, Unbounded), Words(<<"into", "to", "of">>)>>,
    <<Lit("subdivided"), Cls(ClsS, 1, Unbounded), Lit("into")>>,
    <<Lit("related"), Cls(ClsS, 1, Unbounded), Words(<<"concepts", "ideas", "topics">>)>>,
    <<Lit("has"), Cls(ClsS, 1, Unbounded), Lit("branches")>>,
    <<Lit("type"), Opt("s"), Cls(ClsS, 1, Unbounded), Lit("of"), Cls(ClsS, 1, Unbounded)>>,
    MindmapGroupPattern >>

\* raw_mindmap with the keyword weight of _score_flowchart
raw_mindmap_light(text) ==
    LET score == BaseScore(MindmapKeywords, FromDec(15), MindmapPatterns, FromDec(30), text)
        nested_groups == FindallCount(MindmapGroupPattern, text)
        bonus == IF nested_groups >= 2 THEN FAdd(score, FromDec(40)) ELSE score
    IN  bonus

\* the local score of _score_mindmap before its return statement
raw_mindmap(text) ==
    LET score == BaseScore(MindmapKeywords, FromDec(20), MindmapPatterns, FromDec(30), text)
        nested_groups == FindallCount(MindmapGroupPattern, text)
        bonus == IF nested_groups >= 2 THEN FAdd(score, FromDec(40)) ELSE score
    IN  bonus

\* return min(score, 1.0)
_score_mindmap(text) == FMin(raw_mindmap(text), FromDec(100))

TimelineKeywords ==
    CharsOfAll(<<"timeline", "history", "evolution", "milestone", "era",
                 "chronolog", "founded", "launched", "released", "established">>)

TimelinePatterns == <<
    <<WordB, Cls(ClsD, 4, 4), WordB>>,
    <<WordB, Words(<<"january", "february", "march", "april", "may", "june", "july",
                     "august", "september", "october", "november", "december">>), WordB>>,
    <<WordB, Words(<<"jan", "feb", "mar", "apr", "may", "jun", "jul", "aug", "sep",
                     "oct", "nov", "dec">>), Cls(ClsS, 1, Unbounded), Cls(ClsD, 1, 1)>>,
    <<Words(<<"before", "after">>), Cls(ClsS, 1, Unbounded), Cls(ClsD, 4, 4)>>,
    \* r'\d{4}\s*[-:]\s*\w+'; the class of the source also holds the en dash
    \* U+2013, which is no ASCII character and occurs in no text of the model
    <<Cls(ClsD, 4, 4), Cls(ClsS, 0, Unbounded), Cls(ClsOf({"-", ":"}), 1, 1),
      Cls(ClsS, 0, Unbounded), Cls(ClsW, 1, Unbounded)>> >>

\* TimelineYearPattern if every token of four digits counted as a year
TimelineAnyYearPattern == <<WordB, Cls(ClsD, 4, 4), WordB>>

\* r'\b(19|20)\d{2}\b'
TimelineYearPattern == <<WordB, Words(<<"19", "20">>), Cls(ClsD, 2, 2), WordB>>

\* the local score of _score_timeline before its return statement
raw_timeline(text) ==
    LET score == BaseScore(TimelineKeywords, FromDec(20), TimelinePatterns, FromDec(25), text)
        years == FindallCount(TimelineYearPattern, text)
        bonus == IF years >= 3 THEN FAdd(score, FromDec(40))
                 ELSE IF years >= 2 THEN FAdd(score, FromDec(20))
                 ELSE score
    IN  bonus

\* return min(score, 1.0)
_score_timeline(text) == FMin(raw_timeline(text), FromDec(100))

ErKeywords ==
    CharsOfAll(<<"entity", "relationship", "has many", "belongs to", "one to many",
                 "many to many", "one to one", "attributes", "fields", "table",
                 "schema", "foreign key", "primary key", "column", "record">>)

\* r'(has\s+many|belongs\s+to|has\s+one)'
ErRelationPattern ==
    <<Alt(<< <<Lit("has"), Cls(ClsS, 1, Unbounded), Lit("many")>>,
             <<Lit("belongs"), Cls(ClsS, 1, Unbounded), Lit("to")>>,
             <<Lit("has"), Cls(ClsS, 1, Unbounded), Lit("one")>> >>)>>

ErPatterns == <<
    ErRelationPattern,
    <<Words(<<"one", "many">>), Cls(ClsS, 1, Unbounded), Lit("to"), Cls(ClsS, 1, Unbounded),
      Words(<<"one", "many">>)>>,
    <<Lit("entity"), Cls(ClsS, 1, Unbounded), Cls(ClsW, 1, Unbounded), Cls(ClsS, 1, Unbounded),
      Lit("has")>>,
    <<Words(<<"table", "entity">>), Cls(ClsS, 1, Unbounded), Cls(ClsW, 1, Unbounded)>>,
    <<Lit("attribute"), Opt("s"), Cls(ClsS, 0, Unbounded), Cls(ClsOf({":", "="}), 1, 1)>> >>

\* the local score of _score_er before its return statement
raw_er(text) ==
    LET score == BaseScore(ErKeywords, FromDec(20), ErPatterns, FromDec(30), text)
        rel_count == FindallCount(ErRelationPattern, text)
        bonus == IF rel_count >= 2 THEN FAdd(score, FromDec(40)) ELSE score
    IN  bonus

\* return min(score, 1.0)
_score_er(text) == FMin(raw_er(text), FromDec(100))


(***************************************************************************)
(* diagram_router.py: detect_type                                          *)
(***************************************************************************)
\* the keys of the dict scores, in insertion order
Archetypes == <<"flowchart", "architecture", "sequence", "mindmap", "timeline", "er">>

DiagramTypes == {Archetypes[i] : i \in 1..Len(Archetypes)} \cup {"simple"}

\* the dict scores of detect_type, indexed by the position of the key
Scores(text_lower) ==
    << _score_flowchart(text_lower), _score_architecture(text_lower),
       _score_sequence(text_lower), _score_mindmap(text_lower),
       _score_timeline(text_lower), _score_er(text_lower) >>

\* the last of the keys with the greatest value in place of the first
BestTypeLast(sc) == Max({i \in 1..Len(sc) : \A j \in 1..Len(sc) : ~FLess(sc[i], sc[j])})

\* max(scores, key=scores.get): the first key no other key's value exceeds
BestType(sc) == Min({i \in 1..Len(sc) : \A j \in 1..Len(sc) : ~FLess(sc[i], sc[j])})

SimpleReasoning == "No strong pattern detected, defaulting to simple diagram"

reasons == <<
    "Detected steps, decisions, or process flow",
    "Detected system components, services, or layers",
    "Detected message passing between actors/services",
    "Detected central concept with branches or categories",
    "Detected chronological events or dates",
    "Detected entities with attributes and relationships" >>

\* the threshold test as best_score <= 0.2 in place of best_score < 0.2
detect_type_le(sc) ==
    LET best_type == BestType(sc)
        best_score == sc[best_type]
    IN  IF ~FLess(FromDec(20), best_score)
        THEN [diagram_type |-> "simple", confidence |-> FromDec(50),
              reasoning |-> SimpleReasoning]
        ELSE [diagram_type |-> Archetypes[best_type],
              confidence |-> Round2(FMin(best_score, FromDec(100))),
              reasoning |-> reasons[best_type]]

\* the dict detect_type returns for the scores sc
detect_type(sc) ==
    LET best_type == BestType(sc)
        best_score == sc[best_type]
    IN  IF FLess(best_score, FromDec(20))
        THEN [diagram_type |-> "simple", confidence |-> FromDec(50),
              reasoning |-> SimpleReasoning]
        ELSE [diagram_type |-> Archetypes[best_type],
              confidence |-> Round2(FMin(best_score, FromDec(100))),
              reasoning |-> reasons[best_type]]

(***************************************************************************)
(* The router as a state machine: a text is given, detect_type runs once.  *)
(***************************************************************************)
VARIABLES
    text,       \* the argument of detect_type
    rpc,        \* "start" before the call, "done" after it returned
    scores,     \* the local dict scores
    result      \* the dict returned

rvars == <<text, rpc, scores, result>>

\* the texts of the model: at most MaxFragments of these fragments,
\* separated by single spaces
MaxFragments == 2

Fragments ==
    { "hello", "retry", "If ok then", "first", "API", "sends", "ideas", "history",
      "2018", "1850", "has many", "belongs to", "retry loop submit", "founded 1850",
      "1999 2001 2003" }

RECURSIVE TextsUpTo(_)
TextsUpTo(n) ==
    IF n = 0 THEN {""}
    ELSE LET shorter == TextsUpTo(n - 1)
         IN  shorter \cup {IF t = "" THEN f ELSE t \o " " \o f : t \in shorter, f \in Fragments}

Texts == TextsUpTo(MaxFragments)

NoScores == [i \in 1..Len(Archetypes) |-> FZero]
NoResult == [diagram_type |-> "", confidence |-> FZero, reasoning |-> ""]



(***************************************************************************)
(* generate_diagram.py: values and string helpers of the builders.         *)
(*                                                                         *)
(* An element is a Python object.  A str is the TLA+ string of its         *)
(* characters; PyNone and PyList stand for two objects that are no str:    *)
(* None (hashable, no str methods, no "in") and a list (not hashable, no   *)
(* str methods, "in" is membership).                                       *)
(***************************************************************************)
PyNone == "<None>"
PyList == "<list>"

IsStr(e) == e \notin {PyNone, PyList}
Hashable(e) == e # PyList

\* str.replace(" ", "_") on character sequences
ReplaceSpaces(cs) == [i \in 1..Len(cs) |-> IF cs[i] = " " THEN "_" ELSE cs[i]]

\* element.lower().replace(" ", "_")
IdOf(element) == Str(ReplaceSpaces(LowerChars(Chars(element))))

\* str.title(): a letter after a letter is lowered, any other letter raised
TitleChars(cs) ==
    [i \in 1..Len(cs) |->
        IF i > 1 /\ cs[i - 1] \in (UpperSet \cup LowerSet)
        THEN LowerChar(cs[i]) ELSE UpperChar(cs[i])]

Title(element) == Str(TitleChars(Chars(element)))

\* str.strip()
StripChars(cs) ==
    LET keep == {i \in 1..Len(cs) : cs[i] \notin SpaceChars}
    IN  IF keep = {} THEN <<>> ELSE SubSeq(cs, Min(keep), Max(keep))

\* str.rstrip(chars)
RStripChars(cs, chars) ==
    LET keep == {i \in 1..Len(cs) : cs[i] \notin chars}
    IN  IF keep = {} THEN <<>> ELSE SubSeq(cs, 1, Max(keep))

\* element.strip().rstrip('.!?')
CleanChars(element) == RStripChars(StripChars(Chars(element)), {".", "!", "?"})

\* the concatenation of a sequence of sequences
RECURSIVE Flatten(_)
Flatten(ss) == IF Len(ss) = 0 THEN <<>> ELSE Head(ss) \o Flatten(Tail(ss))

\* the members of the set of numbers S in increasing order
Sorted(S) ==
    [k \in 1..Cardinality(S) |-> CHOOSE i \in S : Cardinality({j \in S : j <= i}) = k]

\* list(d.keys()) of a dict filled by d[elements[i]] = ... for i = 1, 2, ...:
\* every key once, in the order of its first insertion
DictKeys(elements) ==
    LET first == {i \in 1..Len(elements) : \A j \in 1..(i - 1) : elements[j] # elements[i]}
        order == Sorted(first)
    IN  [k \in 1..Len(order) |-> elements[order[k]]]

\* HasKey if the dict were keyed by the derived ids
HasKeyById(elements, key) == \E i \in 1..Len(elements) : IdOf(elements[i]) = key

\* key in d, for that dict
HasKey(elements, key) == \E i \in 1..Len(elements) : elements[i] = key

(***************************************************************************)
(* The calls a builder makes on the diagram object it constructs, in       *)
(* order.  A builder is a sequence of such calls; a call that raises ends  *)
(* it.  Coordinates the builder does not pass are left 0.                  *)
(***************************************************************************)
NoAttrs == <<>>

NodeCall(id, role, label, key, x, y, color, attrs) ==
    [op |-> "node",
     node |-> [id |-> id, role |-> role, label |-> label, key |-> key,
               x |-> x, y |-> y, color |-> color, attrs |-> attrs]]

EdgeCall(from, to, label, card) ==
    [op |-> "edge", edge |-> [from |-> from, to |-> to, label |-> label, card |-> card]]

BuildCall == [op |-> "build"]

Raise(exc) == [op |-> "raise", exc |-> exc]

\* the calls up to and including the first one that raises
UntilRaise(calls) ==
    LET raising == {i \in 1..Len(calls) : calls[i].op = "raise"}
    IN  IF raising = {} THEN calls ELSE SubSeq(calls, 1, Min(raising))

\* palette[i % len(palette)] for the 0-based index i
Cycle(palette, i) == palette[(i % Len(palette)) + 1]

Colors7 == <<"blue", "green", "orange", "red", "purple", "cyan", "yellow">>
Colors5 == <<"blue", "green", "orange", "red", "purple">>
Colors6 == <<"green", "orange", "red", "purple", "cyan", "yellow">>

\* the id of the k-th object the diagram created without being given an id
AutoId(k) == "#" \o ToString(k)

(***************************************************************************)
(* _create_flowchart, lines 78-132                                         *)
(***************************************************************************)
DecisionWords == CharsOfAll(<<"check", "if", "validate", "verify", "decision", "?">>)

\* any(word in element_clean.lower() for word in [...])
IsDecision(element) ==
    LET lowered == LowerChars(CleanChars(element))
    IN  \E w \in 1..Len(DecisionWords) : Contains(lowered, DecisionWords[w])

\* [c for c in connections if c.get("from", "").lower() in element_clean.lower()]
YesConnections(element, connections) ==
    LET lowered == LowerChars(CleanChars(element))
        hits == {c \in 1..Len(connections) :
                    Contains(lowered, LowerChars(Chars(connections[c].from)))}
        order == Sorted(hits)
    IN  [k \in 1..Len(order) |-> connections[order[k]]]

\* FlowchartLastId if the decision branch left previous_id at the decision
FlowchartLastIdDecision(element, connections, i) ==
    IF IsDecision(element)
    THEN "decision_" \o ToString(i)
    ELSE "process_" \o ToString(i)

\* previous_id after the iteration for the element of 0-based index i
FlowchartLastId(element, connections, i) ==
    IF IsDecision(element)
    THEN IF Len(YesConnections(element, connections)) > 0
         THEN "process_" \o ToString(i) \o "_yes"
         ELSE "process_" \o ToString(i) \o "_continue"
    ELSE "process_" \o ToString(i)

\* the loop body for the element of 0-based index i, lines 97-126
FlowchartBody(elements, connections, i) ==
    LET element == elements[i + 1]
        previous_id == IF i = 0 THEN "__start__"
                       ELSE FlowchartLastId(elements[i], connections, i - 1)
    IN  IF ~IsStr(element) THEN <<Raise("AttributeError")>>
        ELSE LET element_clean == Str(CleanChars(element))
                 yes_connections == YesConnections(element, connections)
             IN  IF IsDecision(element)
                 THEN LET node_id == "decision_" \o ToString(i)
                          next_id == FlowchartLastId(element, connections, i)
                          next_label == IF Len(yes_connections) > 0
                                        THEN yes_connections[1].to ELSE "Continue"
                      IN  << NodeCall(node_id, "decision", element_clean, "", 0, 0, "", NoAttrs),
                             EdgeCall(previous_id, node_id, "", ""),
                             NodeCall(next_id, "process", next_label, "", 0, 0, "", NoAttrs),
                             EdgeCall(node_id, next_id, "yes", "") >>
                 ELSE LET node_id == "process_" \o ToString(i)
                      IN  << NodeCall(node_id, "process", element_clean, "", 0, 0, "", NoAttrs),
                             EdgeCall(previous_id, node_id, "", "") >>

_create_flowchart(elements, connections) ==
    IF Len(elements) = 0
    THEN << NodeCall("__start__", "terminator", "Start", "", 0, 0, "", NoAttrs),
            NodeCall("main", "process", "Main Process", "", 0, 0, "", NoAttrs),
            NodeCall("__end__", "terminator", "End", "", 0, 0, "", NoAttrs),
            EdgeCall("__start__", "main", "", ""),
            EdgeCall("main", "__end__", "", "") >>
    ELSE LET n == Len(elements)
             last_id == FlowchartLastId(elements[n], connections, n - 1)
         IN  UntilRaise(
                 <<NodeCall("__start__", "terminator", "Start", "", 0, 0, "", NoAttrs)>>
                 \o Flatten([k \in 1..n |-> FlowchartBody(elements, connections, k - 1)])
                 \o << NodeCall("__end__", "terminator", "End", "", 0, 0, "", NoAttrs),
                       EdgeCall(last_id, "__end__", "", "") >>)

(***************************************************************************)
(* _create_architecture_diagram, lines 135-181                             *)
(***************************************************************************)
\* ArchitectureBody filling the grid column by column
ArchitectureBodyColumnMajor(elements, i) ==
    LET element == elements[i + 1]
        cols == Min({Len(elements), 4})
    IN  IF ~IsStr(element) THEN <<Raise("AttributeError")>>
        ELSE << NodeCall(IdOf(element), "component", Title(element), "",
                         150 + (i \div cols) * 200, 100 + (i % cols) * 150,
                         Cycle(Colors7, i), NoAttrs) >>

\* the loop body for the element of 0-based index i, lines 157-167
ArchitectureBody(elements, i) ==
    LET element == elements[i + 1]
        cols == Min({Len(elements), 4})
    IN  IF ~IsStr(element) THEN <<Raise("AttributeError")>>
        ELSE << NodeCall(IdOf(element), "component", Title(element), "",
                         150 + (i % cols) * 200, 100 + (i \div cols) * 150,
                         Cycle(Colors7, i), NoAttrs) >>

\* ArchitectureConnect without the test of line 178
ArchitectureConnectUnchecked(elements, conn) ==
    <<EdgeCall(IdOf(conn.from), IdOf(conn.to), "", "")>>

\* the loop body for one connection, lines 171-179: component_ids maps every
\* element to its id; an id is used if it is found and is not the empty str
ArchitectureConnect(elements, conn) ==
    IF /\ HasKey(elements, conn.from) /\ IdOf(conn.from) # ""
       /\ HasKey(elements, conn.to) /\ IdOf(conn.to) # ""
    THEN <<EdgeCall(IdOf(conn.from), IdOf(conn.to), "", "")>>
    ELSE <<>>

_create_architecture_diagram(elements, connections) ==
    IF Len(elements) = 0
    THEN << NodeCall("frontend", "component", "Frontend", "", 100, 100, "blue", NoAttrs),
            NodeCall("backend", "component", "Backend", "", 400, 100, "green", NoAttrs),
            NodeCall("database", "component", "Database", "", 700, 100, "orange", NoAttrs),
            EdgeCall("frontend", "backend", "API", ""),
            EdgeCall("backend", "database", "SQL", "") >>
    ELSE UntilRaise(
            Flatten([k \in 1..Len(elements) |-> ArchitectureBody(elements, k - 1)])
            \o Flatten([k \in 1..Len(connections) |->
                           ArchitectureConnect(elements, connections[k])]))

(***************************************************************************)
(* _create_sequence_diagram, lines 184-227                                 *)
(***************************************************************************)
SequenceBody(elements, i) ==
    LET element == elements[i + 1]
    IN  IF ~IsStr(element) THEN <<Raise("AttributeError")>>
        ELSE << NodeCall(IdOf(element), "participant", Title(element), "", 0, 0,
                         Cycle(Colors5, i), NoAttrs) >>

\* lines 209-217; a connection of the model has no label, so the default
\* "Message" is used
SequenceMessage(elements, conn) ==
    IF /\ HasKey(elements, conn.from) /\ IdOf(conn.from) # ""
       /\ HasKey(elements, conn.to) /\ IdOf(conn.to) # ""
    THEN <<EdgeCall(IdOf(conn.from), IdOf(conn.to), "Message", "")>>
    ELSE <<>>

\* the default message flow, lines 220-225
SequenceDefaultFlow(elements) ==
    LET part_list == DictKeys(elements)
    IN  IF Len(part_list) >= 2
        THEN [k \in 1..(Len(part_list) - 1) |->
                 EdgeCall(IdOf(part_list[k]), IdOf(part_list[k + 1]),
                          "Step " \o ToString(k), "")]
        ELSE <<>>

_create_sequence_diagram(elements, connections) ==
    IF Len(elements) = 0
    THEN << NodeCall("user", "participant", "User", "", 0, 0, "blue", NoAttrs),
            NodeCall("server", "participant", "Server", "", 0, 0, "green", NoAttrs),
            EdgeCall("user", "server", "Request", ""),
            EdgeCall("server", "user", "Response", "") >>
    ELSE LET participants ==
                 Flatten([k \in 1..Len(elements) |-> SequenceBody(elements, k - 1)])
             raises == \E k \in 1..Len(participants) : participants[k].op = "raise"
         IN  IF raises THEN UntilRaise(participants)
             ELSE IF Len(connections) > 0
             THEN participants
                  \o Flatten([k \in 1..Len(connections) |->
                                 SequenceMessage(elements, connections[k])])
             ELSE participants \o SequenceDefaultFlow(elements)

(***************************************************************************)
(* _create_mindmap, lines 230-251                                          *)
(***************************************************************************)
\* mindmap.branch(parent, label, color): the k-th object of the mind map and
\* the link from its parent
BranchCalls(k, parent, label, color) ==
    << NodeCall(AutoId(k), "branch", label, "", 0, 0, color, NoAttrs),
       EdgeCall(parent, AutoId(k), "", "") >>

_create_mindmap(elements, connections) ==
    IF Len(elements) = 0
    THEN <<NodeCall("__central__", "central", "Central Concept", "", 0, 0, "blue", NoAttrs)>>
         \o BranchCalls(2, "__central__", "Branch 1", "green")
         \o BranchCalls(3, "__central__", "Branch 2", "orange")
    ELSE <<NodeCall("__central__", "central", elements[1], "", 0, 0, "blue", NoAttrs)>>
         \o Flatten([k \in 1..(Len(elements) - 1) |->
                        BranchCalls(k + 1, "__central__", elements[k + 1],
                                    Cycle(Colors6, k - 1))])

(***************************************************************************)
(* _create_timeline_diagram, lines 254-292                                 *)
(***************************************************************************)
MilestoneWords == CharsOfAll(<<"milestone", "launch", "release", "completion">>)

\* the position of the first ":" of the character sequence cs, 0 if none
FirstColon(cs) ==
    LET at == {i \in 1..Len(cs) : cs[i] = ":"}
    IN  IF at = {} THEN 0 ELSE Min(at)

\* the loop body for the element of 0-based index i, the k-th entry of the
\* timeline, lines 271-289.  The branch of line 286 is not reachable:
\* split(":", 1) of a str that holds ":" has two parts.
TimelineBody(elements, i, k) ==
    LET element == elements[i + 1]
        color == Cycle(Colors5, i)
    IN  IF element = PyNone THEN <<Raise("TypeError")>>
        ELSE IF element = PyList \/ FirstColon(Chars(element)) = 0
        THEN <<NodeCall(AutoId(k), "event", element, "Step " \o ToString(i + 1),
                        0, 0, color, NoAttrs)>>
        ELSE LET cs == Chars(element)
                 c == FirstColon(cs)
                 date_part == Str(StripChars(SubSeq(cs, 1, c - 1)))
                 event_chars == StripChars(SubSeq(cs, c + 1, Len(cs)))
                 event_part == Str(event_chars)
             IN  IF \E w \in 1..Len(MilestoneWords) :
                        Contains(LowerChars(event_chars), MilestoneWords[w])
                 THEN <<NodeCall(AutoId(k), "milestone", event_part, date_part,
                                 0, 0, "red", NoAttrs)>>
                 ELSE <<NodeCall(AutoId(k), "event", event_part, date_part,
                                 0, 0, color, NoAttrs)>>

\* _create_timeline_diagram taking the elements from the last to the first
_create_timeline_newest_first(elements, connections) ==
    IF Len(elements) = 0
    THEN << NodeCall(AutoId(1), "event", "Start", "2020", 0, 0, "blue", NoAttrs),
            NodeCall(AutoId(2), "milestone", "Milestone", "2021", 0, 0, "red", NoAttrs),
            NodeCall(AutoId(3), "event", "Progress", "2022", 0, 0, "green", NoAttrs),
            NodeCall(AutoId(4), "event", "Current", "2023", 0, 0, "orange", NoAttrs),
            BuildCall >>
    ELSE UntilRaise(
            Flatten([k \in 1..Len(elements) |->
                        TimelineBody(elements, Len(elements) - k, k)])
            \o <<BuildCall>>)

_create_timeline_diagram(elements, connections) ==
    IF Len(elements) = 0
    THEN << NodeCall(AutoId(1), "event", "Start", "2020", 0, 0, "blue", NoAttrs),
            NodeCall(AutoId(2), "milestone", "Milestone", "2021", 0, 0, "red", NoAttrs),
            NodeCall(AutoId(3), "event", "Progress", "2022", 0, 0, "green", NoAttrs),
            NodeCall(AutoId(4), "event", "Current", "2023", 0, 0, "orange", NoAttrs),
            BuildCall >>
    ELSE UntilRaise(
            Flatten([k \in 1..Len(elements) |-> TimelineBody(elements, k - 1, k)])
            \o <<BuildCall>>)

(***************************************************************************)
(* _create_er_diagram, lines 295-331                                       *)
(***************************************************************************)
ErBody(elements, i) ==
    LET element == elements[i + 1]
    IN  IF ~IsStr(element) THEN <<Raise("AttributeError")>>
        ELSE << NodeCall(IdOf(element), "entity", Title(element), "", 0, 0,
                         Cycle(Colors5, i), <<"id", "name", "created_at">>) >>

\* ErRelationship without the test of line 328
ErRelationshipUnchecked(elements, conn) ==
    <<EdgeCall(IdOf(conn.from), IdOf(conn.to), "related to", "1:N")>>

\* lines 321-329; a connection of the model has no label, so the default
\* "related to" is used
ErRelationship(elements, conn) ==
    IF /\ HasKey(elements, conn.from) /\ IdOf(conn.from) # ""
       /\ HasKey(elements, conn.to) /\ IdOf(conn.to) # ""
    THEN <<EdgeCall(IdOf(conn.from), IdOf(conn.to), "related to", "1:N")>>
    ELSE <<>>

_create_er_diagram(elements, connections) ==
    IF Len(elements) = 0
    THEN << NodeCall("user", "entity", "User", "", 0, 0, "blue", <<"id", "name", "email">>),
            NodeCall("order", "entity", "Order", "", 0, 0, "green",
                     <<"id", "user_id", "total">>),
            EdgeCall("user", "order", "has", "1:N") >>
    ELSE UntilRaise(
            Flatten([k \in 1..Len(elements) |-> ErBody(elements, k - 1)])
            \o Flatten([k \in 1..Len(connections) |->
                           ErRelationship(elements, connections[k])]))

(***************************************************************************)
(* _create_simple_diagram, lines 334-389.  diagram.box returns the box it  *)
(* created; the k-th box of the diagram is identified by AutoId(k).        *)
(***************************************************************************)
\* boxes.get(key): the box stored last under the key, 0 if there is none
BoxOf(elements, key) ==
    LET at == {i \in 1..Len(elements) : elements[i] = key}
    IN  IF at = {} THEN 0 ELSE Max(at)

\* the loop body for the element of 0-based index i, lines 352-357 and
\* 361-366: the box is created, then stored under the element as key
SimpleBody(elements, i) ==
    LET element == elements[i + 1]
        x == IF Len(elements) <= 4 THEN 100 + i * 200 ELSE 100 + (i % 3) * 200
        y == IF Len(elements) <= 4 THEN 150 ELSE 100 + (i \div 3) * 120
        box == NodeCall(AutoId(i + 1), "box", element, "", x, y, Cycle(Colors7, i), NoAttrs)
    IN  IF Hashable(element) THEN <<box>> ELSE <<box, Raise("TypeError")>>

\* diagram.arrow_between(from_box, to_box, label) if both boxes were found
SimpleArrow(elements, from, to) ==
    IF BoxOf(elements, from) # 0 /\ BoxOf(elements, to) # 0
    THEN <<EdgeCall(AutoId(BoxOf(elements, from)), AutoId(BoxOf(elements, to)), "", "")>>
    ELSE <<>>

_create_simple_diagram(elements, connections) ==
    IF Len(elements) = 0
    THEN << NodeCall(AutoId(1), "box", "Item 1", "", 100, 100, "blue", NoAttrs),
            NodeCall(AutoId(2), "box", "Item 2", "", 300, 100, "green", NoAttrs),
            EdgeCall(AutoId(1), AutoId(2), "connection", "") >>
    ELSE UntilRaise(
            Flatten([k \in 1..Len(elements) |-> SimpleBody(elements, k - 1)])
            \o Flatten([k \in 1..Len(connections) |->
                           SimpleArrow(elements, connections[k].from, connections[k].to)])
            \o (IF Len(connections) = 0 /\ Len(elements) > 1
                THEN Flatten([k \in 1..(Len(elements) - 1) |->
                                 SimpleArrow(elements, elements[k], elements[k + 1])])
                ELSE <<>>))

(***************************************************************************)
(* generate_diagram.py as a state machine: main with an analysis, the call *)
(* of generate_diagram_from_analysis, and the tail of main.                *)
(***************************************************************************)
VARIABLES
    analysis,       \* the analysis main passes on: diagram_type, elements, connections
    diagram_type,   \* the local diagram_type of lines 39 and 64, "" before line 39
    gpc,            \* the position in main and generate_diagram_from_analysis
    builder,        \* the builder being run, "" if none
    ip,             \* the number of calls the running builder has made
    diagram,        \* the diagram object under construction
    fallback,       \* whether the except branch of lines 59-64 was entered
    error,          \* the exception in flight or handled by main, "" if none
    generation_result,  \* what generate_diagram_from_analysis returned
    saved,          \* the content of the .excalidraw file
    png_success,    \* the result of export_to_png, PyUnset before the call
    obsidian_path,  \* the local obsidian_path of main, PyUnset before line 546
    exit_code       \* the status main exits with, -1 while it runs

gvars == <<analysis, diagram_type, gpc, builder, ip, diagram, fallback,
           error, generation_result, saved, png_success, obsidian_path, exit_code>>

vars == <<rvars, gvars>>

PyUnset == "<unset>"
NoAnalysis == [diagram_type |-> "", elements |-> <<>>, connections |-> <<>>]
EmptyDiagram == [nodes |-> <<>>, edges |-> <<>>, built |-> FALSE]
NoFile == [written |-> FALSE]
NoGeneration == [returned |-> FALSE]

\* generate_diagram.py is not running
GeneratorIdle ==
    /\ analysis = NoAnalysis /\ diagram_type = ""
    /\ gpc = "idle" /\ builder = "" /\ ip = 0 /\ diagram = EmptyDiagram
    /\ fallback = FALSE /\ error = "" /\ generation_result = NoGeneration
    /\ saved = NoFile /\ png_success = PyUnset /\ obsidian_path = PyUnset
    /\ exit_code = -1

\* detect_type is not running
RouterIdle ==
    /\ text = "" /\ rpc = "idle" /\ scores = NoScores /\ result = NoResult

(***************************************************************************)
(* The diagram object: node and edge creation append and never fail, the   *)
(* caller chooses the ids.                                                 *)
(***************************************************************************)
ApplyCall(d, call) ==
    CASE call.op = "node" -> [d EXCEPT !.nodes = Append(@, call.node)]
      [] call.op = "edge" -> [d EXCEPT !.edges = Append(@, call.edge)]
      [] call.op = "build" -> [d EXCEPT !.built = TRUE]

(***************************************************************************)
(* The inputs of the model                                                 *)
(***************************************************************************)
MaxElems == 2
MaxConns == 1
MaxGrid == 8

\* the choices of --type, line 494
TypeChoices ==
    {"flowchart", "architecture", "sequence", "mindmap", "timeline", "er", "simple"}

\* the element values of the model: labels that repeat, differ in letter
\* case or in space and underscore, the empty label, and objects that are
\* no str
ElementValues(type) ==
    CASE type = "flowchart" -> {"Go", "Check it", "Done?", PyNone}
      [] type = "architecture" -> {"A b", "a b", "c", "", PyNone}
      [] type = "sequence" -> {"A b", "a b", "c", PyNone}
      [] type = "mindmap" -> {"Topic", "c", PyList}
      [] type = "timeline" -> {"2020: Launch", "1999: a: b", "plan", PyNone}
      [] type = "er" -> {"A b", "a_b", "c", PyList}
      [] type = "simple" -> {"A b", "c", PyList}

\* the connections of the model: dicts with the keys "from" and "to"
FromValues == {"A b", "c", ""}
ToValues == {"A b", "a b"}

ListsUpTo(S, n) == UNION {[1..k -> S] : k \in 0..n}

ConnectionValues == {[from |-> f, to |-> t] : f \in FromValues, t \in ToValues}

Analyses ==
    UNION {{[diagram_type |-> type, elements |-> es, connections |-> cs] :
               es \in ListsUpTo(ElementValues(type), MaxElems),
               cs \in ListsUpTo(ConnectionValues, MaxConns)} : type \in TypeChoices}

\* architecture analyses long enough to fill several rows of the grid and to
\* run through the palette: lists of labels, no connections
GridAnalyses ==
    {[diagram_type |-> "architecture", elements |-> es, connections |-> <<>>] :
        es \in UNION {[1..n -> {"A b", "c"}] : n \in 3..MaxGrid}}

(***************************************************************************)
(* generate_diagram_from_analysis, lines 29-75, and main, lines 512-575    *)
(***************************************************************************)
\* the builder lines 45-58 select
BuilderFor(type) ==
    IF type \in {"flowchart", "architecture", "sequence", "mindmap", "timeline", "er"}
    THEN type ELSE "simple"

\* the calls of a builder on the diagram it constructs
BuilderCalls(b, es, cs) ==
    CASE b = "flowchart" -> _create_flowchart(es, cs)
      [] b = "architecture" -> _create_architecture_diagram(es, cs)
      [] b = "sequence" -> _create_sequence_diagram(es, cs)
      [] b = "mindmap" -> _create_mindmap(es, cs)
      [] b = "timeline" -> _create_timeline_diagram(es, cs)
      [] b = "er" -> _create_er_diagram(es, cs)
      [] b = "simple" -> _create_simple_diagram(es, cs)

Script == BuilderCalls(builder, analysis.elements, analysis.connections)

GeneratorInit ==
    /\ analysis \in Analyses \cup GridAnalyses
    /\ diagram_type = ""
    /\ gpc = "start"
    /\ builder = "" /\ ip = 0 /\ diagram = EmptyDiagram
    /\ fallback = FALSE /\ error = "" /\ generation_result = NoGeneration
    /\ saved = NoFile /\ png_success = PyUnset /\ obsidian_path = PyUnset
    /\ exit_code = -1
    /\ RouterIdle

\* lines 39-58: the locals are read and the builder for the type is entered
Dispatch ==
    /\ gpc = "start"
    /\ diagram_type' = analysis.diagram_type
    /\ builder' = BuilderFor(analysis.diagram_type)
    /\ ip' = 0
    /\ diagram' = EmptyDiagram
    /\ gpc' = "try"
    /\ UNCHANGED <<analysis, fallback, error, generation_result, saved, png_success,
                   obsidian_path, exit_code, rvars>>

\* the running builder makes its next call on the diagram
BuildStep ==
    /\ gpc \in {"try", "except"}
    /\ ip < Len(Script)
    /\ Script[ip + 1].op # "raise"
    /\ diagram' = ApplyCall(diagram, Script[ip + 1])
    /\ ip' = ip + 1
    /\ UNCHANGED <<analysis, diagram_type, gpc, builder, fallback, error,
                   generation_result, saved, png_success, obsidian_path, exit_code, rvars>>

\* lines 59-63: the builder of the try block raises; the handler calls
\* _create_simple_diagram with the same elements and connections
BuilderRaises ==
    /\ gpc = "try"
    /\ ip < Len(Script)
    /\ Script[ip + 1].op = "raise"
    /\ fallback' = TRUE
    /\ builder' = "simple"
    /\ ip' = 0
    /\ diagram' = EmptyDiagram
    /\ gpc' = "except"
    /\ UNCHANGED <<analysis, diagram_type, error, generation_result, saved, png_success,
                   obsidian_path, exit_code, rvars>>

\* line 63 raises: the call is in the handler, nothing catches its exception
\* before main does
FallbackRaises ==
    /\ gpc = "except"
    /\ ip < Len(Script)
    /\ Script[ip + 1].op = "raise"
    /\ error' = Script[ip + 1].exc
    /\ gpc' = "raised"
    /\ UNCHANGED <<analysis, diagram_type, builder, ip, diagram, fallback,
                   generation_result, saved, png_success, obsidian_path, exit_code, rvars>>

\* the builder returns its diagram; after the fallback line 64 resets the type
BuilderReturns ==
    /\ gpc \in {"try", "except"}
    /\ ip = Len(Script)
    /\ diagram_type' = IF gpc = "except" THEN "simple" ELSE diagram_type
    /\ gpc' = "save"
    /\ UNCHANGED <<analysis, builder, ip, diagram, fallback, error, generation_result,
                   saved, png_success, obsidian_path, exit_code, rvars>>

\* lines 67-75: diagram.save writes the file and the result is returned
SaveOk ==
    /\ gpc = "save"
    /\ saved' = [written |-> TRUE, diagram |-> diagram]
    /\ generation_result' = [returned |-> TRUE, diagram |-> diagram, type |-> diagram_type]
    /\ gpc' = "returned"
    /\ UNCHANGED <<analysis, diagram_type, builder, ip, diagram, fallback, error,
                   png_success, obsidian_path, exit_code, rvars>>

\* SaveFails if line 68 were wrapped in a try that reports and goes on
SaveFailsSwallowed ==
    /\ gpc = "save"
    /\ error' = "OSError"
    /\ generation_result' = [returned |-> TRUE, diagram |-> diagram, type |-> diagram_type]
    /\ gpc' = "returned"
    /\ UNCHANGED <<analysis, diagram_type, builder, ip, diagram, fallback,
                   saved, png_success, obsidian_path, exit_code, rvars>>

\* line 68 raises: the destination cannot be written
SaveFails ==
    /\ gpc = "save"
    /\ error' = "OSError"
    /\ gpc' = "raised"
    /\ UNCHANGED <<analysis, diagram_type, builder, ip, diagram, fallback,
                   generation_result, saved, png_success, obsidian_path, exit_code, rvars>>

\* lines 542-543: export_to_png returns True or False, it raises nothing
ExportToPng ==
    /\ gpc = "returned"
    /\ png_success' \in BOOLEAN
    /\ gpc' = "exported"
    /\ UNCHANGED <<analysis, diagram_type, builder, ip, diagram, fallback, error,
                   generation_result, saved, obsidian_path, exit_code, rvars>>

\* lines 546-548 with --obsidian: copy_to_obsidian reads os.environ, the
\* module does not import os, the NameError is caught and None is returned
CopyToObsidian ==
    /\ gpc = "exported"
    /\ obsidian_path' = PyNone
    /\ gpc' = "copied"
    /\ UNCHANGED <<analysis, diagram_type, builder, ip, diagram, fallback, error,
                   generation_result, saved, png_success, exit_code, rvars>>

\* lines 546-547 without --obsidian
NoObsidian ==
    /\ gpc = "exported"
    /\ obsidian_path' = PyNone
    /\ gpc' = "printed"
    /\ UNCHANGED <<analysis, diagram_type, builder, ip, diagram, fallback, error,
                   generation_result, saved, png_success, exit_code, rvars>>

\* lines 562-568: the exit status; whether the file is still there is the
\* file system's answer
MainExit ==
    /\ gpc \in {"copied", "printed"}
    /\ \E exists \in BOOLEAN :
         exit_code' = IF ~exists THEN 1 ELSE IF png_success = FALSE THEN 2 ELSE 0
    /\ gpc' = "exited"
    /\ UNCHANGED <<analysis, diagram_type, builder, ip, diagram, fallback, error,
                   generation_result, saved, png_success, obsidian_path, rvars>>

\* lines 570-575: an exception of the try block of main
MainExcept ==
    /\ gpc = "raised"
    /\ exit_code' = 1
    /\ gpc' = "exited"
    /\ UNCHANGED <<analysis, diagram_type, builder, ip, diagram, fallback, error,
                   generation_result, saved, png_success, obsidian_path, rvars>>

GeneratorNext ==
    \/ Dispatch
    \/ BuildStep
    \/ BuilderRaises
    \/ FallbackRaises
    \/ BuilderReturns
    \/ SaveOk
    \/ SaveFails
    \/ ExportToPng
    \/ CopyToObsidian
    \/ NoObsidian
    \/ MainExit
    \/ MainExcept

GeneratorSpec == GeneratorInit /\ [][GeneratorNext]_vars

(***************************************************************************)
(* The specification of the router                                         *)
(***************************************************************************)
RouterInit ==
    /\ text \in Texts
    /\ rpc = "start"
    /\ scores = NoScores
    /\ result = NoResult
    /\ GeneratorIdle

\* detect_type(text), lines 16-61
DetectType ==
    /\ rpc = "start"
    /\ \E text_lower \in {LowerChars(Chars(text))} :
         \E sc \in {Scores(text_lower)} :
            /\ scores' = sc
            /\ result' = detect_type(sc)
    /\ rpc' = "done"
    /\ UNCHANGED <<text, gvars>>

RouterNext == DetectType

RouterSpec == RouterInit /\ [][RouterNext]_vars

(***************************************************************************)
(* Properties of the router                                                *)
(***************************************************************************)
FLeq(x, y) == ~FLess(y, x)

\* C1: for every text, detect_type returns a confidence in [0, 1] and a
\* diagram_type among the seven archetypes, also when the raw signal sum of
\* an archetype exceeds 1.
C1_ConfidenceAndTypeInRange ==
    rpc = "done" =>
        /\ FLeq(FZero, result.confidence)
        /\ FLeq(result.confidence, FromDec(100))
        /\ result.diagram_type \in
              {"flowchart", "architecture", "sequence", "mindmap", "timeline", "er", "simple"}

\* a text whose er signals sum to more than 1 has been classified
C1_Witness ==
    /\ rpc = "done"
    /\ FLess(FromDec(100), raw_er(LowerChars(Chars(text))))
    /\ result.diagram_type = "er"
    /\ result.confidence = FromDec(100)

\* C2: detect_type returns simple with confidence 0.5 exactly when all six
\* scores are below 0.2, whichever archetype scored highest; simple is never
\* returned when some score is 0.2 or more.
C2_SimpleIffAllBelowThreshold ==
    rpc = "done" =>
        LET low == \A i \in 1..6 : FLess(scores[i], FromDec(20))
        IN  /\ low => (result.diagram_type = "simple" /\ result.confidence = FromDec(50))
            /\ ~low => result.diagram_type # "simple"

\* the fallback was taken although some archetype had a positive score
C2_Witness ==
    /\ rpc = "done"
    /\ result.diagram_type = "simple"
    /\ \E i \in 1..6 : FLess(FZero, scores[i])

ExpectedReasoning ==
    [flowchart |-> "Detected steps, decisions, or process flow",
     architecture |-> "Detected system components, services, or layers",
     sequence |-> "Detected message passing between actors/services",
     mindmap |-> "Detected central concept with branches or categories",
     timeline |-> "Detected chronological events or dates",
     er |-> "Detected entities with attributes and relationships"]

EvaluationOrder == <<"flowchart", "architecture", "sequence", "mindmap", "timeline", "er">>

\* C3: when the greatest of the six scores is at least 0.2, detect_type
\* returns an archetype whose score is that maximum, the score rounded to two
\* decimals as confidence and the archetype's fixed reasoning; of several
\* archetypes with exactly the maximum it returns the first in the order
\* flowchart, architecture, sequence, mindmap, timeline, er.
C3_ArgMaxFirstOnTie ==
    (rpc = "done" /\ \E i \in 1..6 : FLeq(FromDec(20), scores[i])) =>
        \E w \in 1..6 :
            /\ result.diagram_type = EvaluationOrder[w]
            /\ \A j \in 1..6 : FLeq(scores[j], scores[w])
            /\ \A j \in 1..(w - 1) : FLess(scores[j], scores[w])
            /\ result.confidence = Round2(scores[w])
            /\ result.reasoning = ExpectedReasoning[EvaluationOrder[w]]

\* two archetypes tied exactly for a maximum of at least 0.2 and the earlier
\* one was returned
C3_Witness ==
    /\ rpc = "done"
    /\ \E i, j \in 1..6 :
          /\ i < j
          /\ scores[i] = scores[j]
          /\ FLeq(FromDec(20), scores[i])
          /\ \A k \in 1..6 : FLeq(scores[k], scores[i])
          /\ result.diagram_type = EvaluationOrder[i]


\* the lowered text detect_type scored
Lowered == LowerChars(Chars(text))

\* in hundredths: k * wk + p * wp + bonus for the archetype at position i
\* of the evaluation order, from the hits of that archetype alone
SignalSum(i, t) ==
    CASE i = 1 -> 15 * KeywordHits(FlowchartKeywords, t)
                  + 25 * PatternHits(FlowchartPatterns, t)
                  + (IF Search(FlowchartStrongPattern, t) THEN 40 ELSE 0)
      [] i = 2 -> 15 * KeywordHits(ArchitectureKeywords, t)
                  + 25 * PatternHits(ArchitecturePatterns, t)
      [] i = 3 -> 15 * KeywordHits(SequenceKeywords, t)
                  + 30 * PatternHits(SequencePatterns, t)
                  + (IF FindallCount(SequenceToPattern, t) >= 3 THEN 30 ELSE 0)
      [] i = 4 -> 20 * KeywordHits(MindmapKeywords, t)
                  + 30 * PatternHits(MindmapPatterns, t)
                  + (IF FindallCount(MindmapGroupPattern, t) >= 2 THEN 40 ELSE 0)
      [] i = 5 -> 20 * KeywordHits(TimelineKeywords, t)
                  + 25 * PatternHits(TimelinePatterns, t)
                  + (IF FindallCount(TimelineYearPattern, t) >= 3 THEN 40
                     ELSE IF FindallCount(TimelineYearPattern, t) = 2 THEN 20 ELSE 0)
      [] i = 6 -> 20 * KeywordHits(ErKeywords, t)
                  + 30 * PatternHits(ErPatterns, t)
                  + (IF FindallCount(ErRelationPattern, t) >= 2 THEN 40 ELSE 0)

\* C11 as stated: every score is exactly min(1.0, k * wk + p * wp + bonus),
\* that is the double of that decimal number, computed from the hits of its
\* own archetype alone.
C11_Original ==
    rpc = "done" =>
        \A i \in 1..6 : scores[i] = FromDec(Min({100, SignalSum(i, Lowered)}))

\* C11 (amended): every score is min(1.0, k * wk + p * wp + bonus) up to
\* the rounding of the float additions that accumulate it: the two agree
\* when rounded to two decimals, and the score depends on the hits of its
\* own archetype alone.
C11_ScoreUpToRounding ==
    rpc = "done" =>
        \A i \in 1..6 : Hundredths(scores[i]) = Min({100, SignalSum(i, Lowered)})

\* three flowchart keywords were scored: the float sum is not the double
\* 0.45 and rounds to 0.45
C11_Witness ==
    /\ rpc = "done"
    /\ SignalSum(1, Lowered) = 45
    /\ scores[1] # FromDec(45)
    /\ Hundredths(scores[1]) = 45

\* the positions at which a standalone token of four digits starts in t: a
\* maximal run of word characters that consists of four digits
FourDigitTokens(t) ==
    {p \in 1..(Len(t) - 3) :
        /\ \A q \in p..(p + 3) : t[q] \in DigitChars
        /\ (p = 1 \/ t[p - 1] \notin WordChars)
        /\ (p + 3 = Len(t) \/ t[p + 4] \notin WordChars)}

\* those of them that start with 19 or 20
YearTokens(t) ==
    {p \in FourDigitTokens(t) : t[p] \o t[p + 1] \in {"19", "20"}}

\* in hundredths: the bonus for n year tokens
YearBonus(n) == IF n >= 3 THEN 40 ELSE IF n = 2 THEN 20 ELSE 0

\* in hundredths: the timeline score without the bonus, before the clamp
TimelineBase(t) ==
    20 * KeywordHits(TimelineKeywords, t) + 25 * PatternHits(TimelinePatterns, t)

\* C12 as stated: the timeline bonus is 0.4 for three or more standalone
\* tokens of exactly four digits, 0.2 for exactly two, 0 for fewer; the
\* timeline score is its keyword and pattern sum plus that bonus, clamped.
C12_Original ==
    rpc = "done" =>
        Hundredths(scores[5]) =
            Min({100, TimelineBase(Lowered)
                      + YearBonus(Cardinality(FourDigitTokens(Lowered)))})

\* C12 (amended): the same, counting only the standalone four-digit tokens
\* that start with 19 or 20.
C12_YearBonus ==
    rpc = "done" =>
        Hundredths(scores[5]) =
            Min({100, TimelineBase(Lowered) + YearBonus(Cardinality(YearTokens(Lowered)))})

\* a text with at least three years and a four-digit token that is no year
\* of 19xx or 20xx was scored with the bonus 0.4 and without clamping
C12_Witness ==
    /\ rpc = "done"
    /\ Cardinality(YearTokens(Lowered)) >= 3
    /\ Cardinality(FourDigitTokens(Lowered)) > Cardinality(YearTokens(Lowered))
    /\ Hundredths(scores[5]) = TimelineBase(Lowered) + 40
    /\ Hundredths(scores[5]) < 100

\* the keyword list and the pattern list of the i-th archetype
KeywordsOf(i) ==
    CASE i = 1 -> FlowchartKeywords [] i = 2 -> ArchitectureKeywords
      [] i = 3 -> SequenceKeywords [] i = 4 -> MindmapKeywords
      [] i = 5 -> TimelineKeywords [] i = 6 -> ErKeywords

PatternsOf(i) ==
    CASE i = 1 -> FlowchartPatterns [] i = 2 -> ArchitecturePatterns
      [] i = 3 -> SequencePatterns [] i = 4 -> MindmapPatterns
      [] i = 5 -> TimelinePatterns [] i = 6 -> ErPatterns

\* the bonus of the i-th archetype fires on the text t
BonusFires(i, t) ==
    CASE i = 1 -> Search(FlowchartStrongPattern, t)
      [] i = 2 -> FALSE
      [] i = 3 -> FindallCount(SequenceToPattern, t) >= 3
      [] i = 4 -> FindallCount(MindmapGroupPattern, t) >= 2
      [] i = 5 -> FindallCount(TimelineYearPattern, t) >= 2
      [] i = 6 -> FindallCount(ErRelationPattern, t) >= 2

\* no pattern and no bonus of any archetype fires on t
NoPatternNoBonus(t) ==
    \A i \in 1..6 : PatternHits(PatternsOf(i), t) = 0 /\ ~BonusFires(i, t)

\* the keyword hits of the six archetypes on t
KeywordCounts(t) ==
    << KeywordHits(KeywordsOf(1), t), KeywordHits(KeywordsOf(2), t),
       KeywordHits(KeywordsOf(3), t), KeywordHits(KeywordsOf(4), t),
       KeywordHits(KeywordsOf(5), t), KeywordHits(KeywordsOf(6), t) >>

\* the only signal is one keyword hit, of the i-th archetype: kw are the
\* keyword hits and quiet tells that no pattern and no bonus fires
LoneKeyword(i, kw, quiet) ==
    quiet /\ kw[i] = 1 /\ \A j \in 1..6 \ {i} : kw[j] = 0

\* C17: detect_type falls back to "simple" if and only if no pattern and no
\* bonus of any archetype fires, no mindmap, timeline or er keyword occurs
\* and flowchart, architecture and sequence have at most one keyword hit
\* each; a single keyword hit of weight 0.15 alone never selects its
\* archetype, a single keyword hit of weight 0.20 alone selects its
\* archetype with confidence 0.2.
C17_FallbackIffWeakSignals ==
    rpc = "done" =>
        \A kw \in {KeywordCounts(Lowered)} : \A quiet \in {NoPatternNoBonus(Lowered)} :
            /\ result.diagram_type = "simple" <=>
                  /\ quiet
                  /\ \A i \in 4..6 : kw[i] = 0
                  /\ \A i \in 1..3 : kw[i] <= 1
            /\ \A i \in 1..3 :
                  LoneKeyword(i, kw, quiet) => result.diagram_type = "simple"
            /\ \A i \in 4..6 : LoneKeyword(i, kw, quiet) =>
                  /\ result.diagram_type = Archetypes[i]
                  /\ result.confidence = FromDec(20)

\* a text whose only signal is one timeline keyword was typed timeline with
\* confidence 0.2
C17_Witness ==
    /\ rpc = "done"
    /\ LoneKeyword(5, KeywordCounts(Lowered), NoPatternNoBonus(Lowered))
    /\ result.diagram_type = "timeline"
    /\ result.confidence = FromDec(20)

(***************************************************************************)
(* Properties of the builders                                              *)
(***************************************************************************)
NodeIds(d) == {d.nodes[n].id : n \in 1..Len(d.nodes)}

\* every element is a label string
WellFormed == \A i \in 1..Len(analysis.elements) : IsStr(analysis.elements[i])

\* the builders that map connections onto nodes
MappingBuilders == {"architecture", "sequence", "er", "simple"}

\* the connection names a label that no element has
Unmatched(conn) ==
    \/ ~HasKey(analysis.elements, conn.from)
    \/ ~HasKey(analysis.elements, conn.to)

\* C4: at every step of a build by the Architecture, ER or Simple builder
\* (the Simple builder of the fallback included), both endpoints of every
\* edge of the diagram are ids of nodes the diagram contains.
C4_NoDanglingEdges ==
    builder \in {"architecture", "er", "simple"} =>
        \A k \in 1..Len(diagram.edges) :
            /\ diagram.edges[k].from \in NodeIds(diagram)
            /\ diagram.edges[k].to \in NodeIds(diagram)

\* the ER builder has finished a diagram with elements of its own and an edge
C4_Witness ==
    /\ builder = "er" /\ gpc = "save"
    /\ Len(analysis.elements) > 0
    /\ Len(diagram.edges) > 0

\* C5: no two nodes of a diagram have the same id, whatever builder made it.
C5_UniqueNodeIds ==
    \A m, n \in 1..Len(diagram.nodes) :
        m # n => diagram.nodes[m].id # diagram.nodes[n].id

\* C6: when the Flowchart builder has finished for a non-empty element
\* list, the first node is the "Start" terminator, the last node is the
\* "End" terminator, and every node but the first has exactly one incoming
\* edge, which comes from the node created immediately before it; there is
\* no other edge.
C6_FlowchartChain ==
    (builder = "flowchart" /\ gpc = "save" /\ Len(analysis.elements) > 0) =>
        LET ns == diagram.nodes
            es == diagram.edges
        IN  /\ Len(ns) >= 2
            /\ ns[1].role = "terminator" /\ ns[1].label = "Start"
            /\ ns[Len(ns)].role = "terminator" /\ ns[Len(ns)].label = "End"
            /\ Len(es) = Len(ns) - 1
            /\ \A k \in 2..Len(ns) :
                  /\ Cardinality({e \in 1..Len(es) : es[e].to = ns[k].id}) = 1
                  /\ \E e \in 1..Len(es) :
                        es[e].to = ns[k].id /\ es[e].from = ns[k - 1].id

\* the Flowchart builder has finished for a decision followed by a process
C6_Witness ==
    /\ builder = "flowchart" /\ gpc = "save"
    /\ Len(analysis.elements) = 2
    /\ Len(diagram.nodes) = 5
    /\ diagram.nodes[2].role = "decision"

\* the number of edges the connections that name known labels may produce
MatchedCount ==
    Cardinality({k \in 1..Len(analysis.connections) : ~Unmatched(analysis.connections[k])})

\* what C7 promises of a run in which some connection is unmatched
DropsUnmatched ==
    /\ ~fallback
    /\ gpc = "save" =>
          /\ Len(diagram.edges) <= MatchedCount
          /\ Len(diagram.edges) < Len(analysis.connections)

\* C7 as stated: for every list of element labels, in the Architecture,
\* Sequence, ER and Simple builders a connection whose from or to label is
\* no element label raises no error and produces no edge, so the finished
\* diagram has fewer edges than connections were supplied.
C7_Original ==
    (/\ analysis.diagram_type \in MappingBuilders
     /\ WellFormed
     /\ \E k \in 1..Len(analysis.connections) : Unmatched(analysis.connections[k]))
    => DropsUnmatched

\* C7 (amended): the same for every non-empty list of element labels; for
\* the empty list the builder returns its default diagram.
C7_DropsUnmatchedNonEmpty ==
    (/\ analysis.diagram_type \in MappingBuilders
     /\ WellFormed
     /\ Len(analysis.elements) > 0
     /\ \E k \in 1..Len(analysis.connections) : Unmatched(analysis.connections[k]))
    => DropsUnmatched

\* a mapping builder has finished for elements and an unmatched connection
C7_Witness ==
    /\ analysis.diagram_type \in MappingBuilders /\ gpc = "save" /\ ~fallback
    /\ WellFormed
    /\ Len(analysis.elements) > 0
    /\ Len(analysis.connections) > 0
    /\ \E k \in 1..Len(analysis.connections) : Unmatched(analysis.connections[k])
    /\ Len(diagram.edges) < Len(analysis.connections)


\* the palette of the components, from the first colour on
Palette == <<"blue", "green", "orange", "red", "purple", "cyan", "yellow">>

\* C13: for n >= 1 element labels the Architecture builder creates exactly
\* one component per element; the element of 0-based index i stands at
\* x = 150 + 200*(i mod c), y = 100 + 150*(i div c) with c = min(n, 4) and
\* has the colour Palette[i mod 7]; no row holds more than 4 components,
\* and three elements stand at x = 150, 350, 550, y = 100 in blue, green
\* and orange.
C13_ArchitectureGrid ==
    (builder = "architecture" /\ gpc = "save" /\ Len(analysis.elements) >= 1) =>
        LET ns == diagram.nodes
            n == Len(analysis.elements)
            c == IF n < 4 THEN n ELSE 4
        IN  /\ Len(ns) = n
            /\ \A i \in 0..(n - 1) :
                   /\ ns[i + 1].role = "component"
                   /\ ns[i + 1].x = 150 + 200 * (i % c)
                   /\ ns[i + 1].y = 100 + 150 * (i \div c)
                   /\ ns[i + 1].color = Palette[(i % 7) + 1]
            /\ \A k \in 1..n :
                   Cardinality({m \in 1..n : ns[m].y = ns[k].y}) <= 4
            /\ n = 3 =>
                   /\ <<ns[1].x, ns[2].x, ns[3].x>> = <<150, 350, 550>>
                   /\ <<ns[1].y, ns[2].y, ns[3].y>> = <<100, 100, 100>>
                   /\ <<ns[1].color, ns[2].color, ns[3].color>> =
                         <<"blue", "green", "orange">>

\* eight components are laid out: a full first row, a second row, and the
\* palette has started again
C13_Witness ==
    /\ builder = "architecture" /\ gpc = "save"
    /\ Len(analysis.elements) = 8
    /\ Len(diagram.nodes) = 8
    /\ diagram.nodes[5].x = 150 /\ diagram.nodes[5].y = 250
    /\ diagram.nodes[8].x = 750 /\ diagram.nodes[8].color = "blue"

\* the lowercased text of the element contains a decision keyword or "?"
AsksDecision(element) ==
    LET lowered == LowerChars(Chars(element))
    IN  \E w \in {"check", "if", "validate", "verify", "decision", "?"} :
           Contains(lowered, Chars(w))

\* the roles of the nodes and the labels of the edges that reach them, element
\* by element: a decision and its successor, or one process node
DecisionShape(elements) ==
    Flatten([k \in 1..Len(elements) |->
                IF AsksDecision(elements[k])
                THEN << <<"decision", "">>, <<"process", "yes">> >>
                ELSE << <<"process", "">> >>])

\* C14: for each element in order the Flowchart builder emits a decision
\* node followed by exactly one successor process node reached by a
\* "yes"-labelled edge if the lowercased element contains check, if,
\* validate, verify, decision or a "?" at any place, its end included, and
\* otherwise exactly one process node reached by an unlabelled edge.
C14_DecisionNodes ==
    (builder = "flowchart" /\ gpc = "save" /\ WellFormed
        /\ Len(analysis.elements) >= 1) =>
        LET ns == diagram.nodes
            es == diagram.edges
            shape == DecisionShape(analysis.elements)
        IN  /\ Len(ns) = Len(shape) + 2
            /\ Len(es) = Len(shape) + 1
            /\ \A k \in 1..Len(shape) :
                   /\ ns[k + 1].role = shape[k][1]
                   /\ es[k].to = ns[k + 1].id
                   /\ es[k].label = shape[k][2]

\* the role, key and label of the entry the claim gives the element of
\* 0-based index i; the prefix and the rest are taken without the blanks
\* around them
EntryOf(element, i) ==
    LET cs == Chars(element)
        colons == {p \in 1..Len(cs) : cs[p] = ":"}
    IN  IF colons = {}
        THEN [role |-> "event", key |-> "Step " \o ToString(i + 1), label |-> element]
        ELSE LET c == CHOOSE p \in colons : \A q \in colons : p <= q
                 prefix == Str(StripChars(SubSeq(cs, 1, c - 1)))
                 rest == StripChars(SubSeq(cs, c + 1, Len(cs)))
                 marked == \E w \in {"milestone", "launch", "release", "completion"} :
                              Contains(LowerChars(rest), Chars(w))
             IN  [role |-> IF marked THEN "milestone" ELSE "event",
                  key |-> prefix, label |-> Str(rest)]

\* the entry is the one the element of 0-based index i gives
IsEntryOf(node, element, i) ==
    [role |-> node.role, key |-> node.key, label |-> node.label] = EntryOf(element, i)

\* C15: for a non-empty list of element labels the Timeline builder adds
\* exactly one entry per element in input order, the k-th entry added being
\* that of the k-th element whatever the dates are, and only then makes the
\* single build step: a milestone keyed by the text before the first colon
\* if the text after it contains milestone, launch, release or completion
\* in any letter case, an event keyed by that prefix otherwise, and an event
\* keyed "Step i+1" for the element of 0-based index i without a colon.
C15_TimelineOrder ==
    [][(/\ builder = "timeline" /\ builder' = "timeline"
        /\ WellFormed /\ Len(analysis.elements) >= 1) =>
            LET n == Len(analysis.elements)
                k == Len(diagram.nodes)
            IN  /\ diagram'.nodes # diagram.nodes =>
                      /\ ~diagram.built /\ ~diagram'.built
                      /\ k < n
                      /\ Len(diagram'.nodes) = k + 1
                      /\ SubSeq(diagram'.nodes, 1, k) = diagram.nodes
                      /\ IsEntryOf(diagram'.nodes[k + 1], analysis.elements[k + 1], k)
                /\ diagram'.built # diagram.built =>
                      /\ diagram'.built
                      /\ k = n
                      /\ diagram'.nodes = diagram.nodes
                /\ gpc' = "save" => (diagram'.built /\ Len(diagram'.nodes) = n)]_vars

\* a timeline is built whose first element has the later date: the entries
\* stand in input order, the first a milestone, the second keyed by the text
\* before the first of its two colons
C15_Witness ==
    /\ builder = "timeline" /\ gpc = "save" /\ diagram.built
    /\ analysis.elements = <<"2020: Launch", "1999: a: b">>
    /\ diagram.nodes[1].role = "milestone" /\ diagram.nodes[1].key = "2020"
    /\ diagram.nodes[2].role = "event" /\ diagram.nodes[2].key = "1999"
    /\ diagram.nodes[2].label = "a: b"

\* C16: given n >= 2 element labels and no connections, the Sequence
\* builder creates one participant per element and exactly n-1 messages,
\* the i-th from the participant of the i-th element to the participant of
\* the (i+1)-th element with the label "Step i", also when a label occurs
\* more than once in the list.
C16_DefaultChain ==
    (/\ builder = "sequence" /\ gpc = "save" /\ WellFormed
     /\ Len(analysis.elements) >= 2 /\ Len(analysis.connections) = 0) =>
        LET ns == diagram.nodes
            es == diagram.edges
            n == Len(analysis.elements)
        IN  /\ Len(ns) = n
            /\ \A k \in 1..n : ns[k].role = "participant"
            /\ Len(es) = n - 1
            /\ \A i \in 1..(n - 1) :
                   /\ es[i].from = ns[i].id
                   /\ es[i].to = ns[i + 1].id
                   /\ es[i].label = "Step " \o ToString(i)

(***************************************************************************)
(* Properties of generate_diagram_from_analysis and main                   *)
(***************************************************************************)
\* the diagram a builder leaves when all of its calls have been made
RECURSIVE Built(_, _)
Built(d, calls) ==
    IF Len(calls) = 0 THEN d ELSE Built(ApplyCall(d, Head(calls)), Tail(calls))

DiagramOf(b) ==
    Built(EmptyDiagram, BuilderCalls(b, analysis.elements, analysis.connections))

\* C8: if the builder selected for a non-simple type raises, the exception
\* does not leave generate_diagram_from_analysis: the diagram is rebuilt by
\* the Simple builder from the same elements and connections, the returned
\* type is "simple" and that diagram is the one saved; if the selected
\* builder does not raise, the returned type is the requested type and the
\* saved diagram is the one that builder produced.
C8_FallbackRecovers ==
    /\ (fallback /\ analysis.diagram_type # "simple") =>
          /\ gpc = "raised" => error = "OSError"
          /\ generation_result.returned =>
                /\ generation_result.type = "simple"
                /\ saved = [written |-> TRUE, diagram |-> DiagramOf("simple")]
    /\ (~fallback /\ generation_result.returned) =>
          /\ generation_result.type = analysis.diagram_type
          /\ saved = [written |-> TRUE,
                      diagram |-> DiagramOf(BuilderFor(analysis.diagram_type))]

\* C9: when diagram.save raises, generate_diagram_from_analysis returns no
\* result and no builder runs again, nothing is written, main neither
\* exports the PNG nor reaches the Obsidian copy, and main exits with
\* status 1.
C9_SaveFailureIsFatal ==
    error = "OSError" =>
        /\ gpc \in {"raised", "exited"}
        /\ generation_result = NoGeneration
        /\ saved = NoFile
        /\ png_success = PyUnset
        /\ obsidian_path = PyUnset
        /\ gpc = "exited" => exit_code = 1

\* main has exited after a failed save
C9_Witness ==
    /\ error = "OSError"
    /\ gpc = "exited"
    /\ exit_code = 1

\* the labels are equal up to letter case
EqualUpToCase(a, b) == LowerChars(Chars(a)) = LowerChars(Chars(b))

\* the diagram has an edge from the node of element i to the node of element j
Linked(i, j) ==
    \E e \in 1..Len(diagram.edges) :
        /\ diagram.edges[e].from = diagram.nodes[i].id
        /\ diagram.edges[e].to = diagram.nodes[j].id

\* C10 as stated, for non-empty labels: when the Architecture, Sequence, ER
\* or Simple builder has finished, every connection whose from and to
\* labels equal two element labels up to letter case has produced an edge
\* between the nodes of two such elements.
C10_Original ==
    (/\ analysis.diagram_type \in MappingBuilders
     /\ WellFormed
     /\ gpc = "save")
    => \A k \in 1..Len(analysis.connections) :
          LET conn == analysis.connections[k]
              froms == {i \in 1..Len(analysis.elements) :
                           EqualUpToCase(conn.from, analysis.elements[i])}
              tos == {j \in 1..Len(analysis.elements) :
                         EqualUpToCase(conn.to, analysis.elements[j])}
          IN  (conn.from # "" /\ conn.to # "" /\ froms # {} /\ tos # {})
              => \E i \in froms, j \in tos : Linked(i, j)

\* C10 (amended): the same for connections whose from and to labels are
\* exactly equal, letter case included, to two non-empty element labels.
C10_ExactLabelMatch ==
    (/\ analysis.diagram_type \in MappingBuilders
     /\ WellFormed
     /\ gpc = "save")
    => \A k \in 1..Len(analysis.connections) :
          LET conn == analysis.connections[k]
              froms == {i \in 1..Len(analysis.elements) : conn.from = analysis.elements[i]}
              tos == {j \in 1..Len(analysis.elements) : conn.to = analysis.elements[j]}
          IN  (conn.from # "" /\ conn.to # "" /\ froms # {} /\ tos # {})
              => \E i \in froms, j \in tos : Linked(i, j)

\* a mapping builder has finished for a connection between two different
\* labels that are both element labels
C10_Witness ==
    /\ analysis.diagram_type \in MappingBuilders /\ gpc = "save" /\ ~fallback
    /\ Len(analysis.elements) = 2
    /\ Len(analysis.connections) = 1
    /\ analysis.connections[1].from = analysis.elements[2]
    /\ analysis.connections[1].to = analysis.elements[1]
    /\ analysis.elements[1] = "A b"
    /\ analysis.elements[2] = "c"
    /\ Linked(2, 1)

====
